---- MODULE Spec2Model ----
(***************************************************************************)
(* DayMark: the monthly data store adapter (src/utils/db.py) and the       *)
(* session data cache life cycle of the Streamlit script (src/main.py).    *)
(*                                                                         *)
(* A Python dict is a TLA+ function whose DOMAIN is the dict's key set.    *)
(* A Firestore document is a record [exists, fields].  One action of Spec  *)
(* is one user interaction: the widget callback (if any) followed by the   *)
(* script run it triggers, st.rerun() passes included.                     *)
(***************************************************************************)
EXTENDS Integers, Sequences, FiniteSets, TLC

VARIABLES
    store,              \* Firestore: <<uid, month_key>> -> [habits, journal, tasks] documents
    profile,            \* Firestore: uid -> users/{uid}/settings/profile document
    accounts,           \* identity provider: the uids that have signed up
    keys,               \* the keys present in st.session_state
    user,               \* st.session_state.user (localId of the auth result, or None)
    settings,           \* st.session_state.settings
    data,               \* st.session_state.data
    savedchanges,       \* st.session_state.savedchanges
    last_autosave,      \* st.session_state.last_autosave
    habit_grid_df,      \* st.session_state.habit_grid_df
    habit_grid,         \* widget state of st.data_editor(key="habit_grid"): edited cells
    selected_date,      \* widget state of the date_input: <<month_key, day>>
    current_month_key,  \* module global of the last script run, read by the callbacks
    stopped_at,         \* where the last script run ended
    error,              \* the uncaught exception the last run showed to the user, or None
    message,            \* st.error(...) text of the last run, or None
    now,                \* time.time(), in seconds since the session started
    log,                \* what the last interaction did to the store (history)
    interactions,       \* how many interactions the session has had
    db_call,            \* SpecDb only: the last adapter call and its result
    graph_call          \* SpecGraphs only: the last call of a chart function and its result

vars == <<store, profile, accounts, keys, user, settings, data, savedchanges,
          last_autosave, habit_grid_df, habit_grid, selected_date,
          current_month_key, stopped_at, error, message, now, log, interactions,
          db_call, graph_call>>

(***************************************************************************)
(* Values                                                                  *)
(***************************************************************************)
None == "None"

Users == {"u1"}

Months == {"2025-11", "2025-12"}

\* pd.Period(month_key).days_in_month
days_in_month(month_key) == IF month_key = "2025-11" THEN 30 ELSE 31

\* str(d)
str(d) == ToString(d)

\* selected_date.strftime("%d"): zero padded
strftime_d(d) == IF d < 10 THEN "0" \o ToString(d) ELSE ToString(d)

\* selected_date.strftime("%Y-%m")
strftime_Ym(date) == date[1]

\* The dates the user picks in the date_input; "today" is its default.
Today == <<"2025-12", 21>>

SelectableDates == {<<"2025-11", 5>>, <<"2025-12", 5>>, Today}

HabitNames == {"Read"}

\* The grid cells (day columns) the user toggles.
EditDays == {"5"}

\* What the user types into the journal text area.
Texts == {"", "x"}

TaskNames == {"Call"}

\* Clock: between two interactions the user waits one of Delays seconds, as
\* long as the clock stays within MaxNow.
Delays == {60}

MaxNow == 60

\* The session is followed for MaxInteractions interactions.
MaxInteractions == 5

\* The autosave period of the script, in seconds.
AUTOSAVE_SECONDS == 60

\* F applied to the value of x, with x evaluated once (a sequence point).
Bind(x, F(_)) == CHOOSE y \in {F(v) : v \in {x}} : TRUE

(***************************************************************************)
(* Python dicts                                                            *)
(***************************************************************************)
EmptyDict == [k \in {} |-> TRUE]

\* d[k] = v
DictSet(d, k, v) == [x \in (DOMAIN d) \cup {k} |-> IF x = k THEN v ELSE d[x]]

\* del d[k]
DictDel(d, k) == [x \in (DOMAIN d) \ {k} |-> d[x]]

\* d.get(k, default)
DictGet(d, k, default) == IF k \in DOMAIN d THEN d[k] ELSE default

(***************************************************************************)
(* src/utils/db.py                                                         *)
(***************************************************************************)
NoDoc == [exists |-> FALSE, fields |-> EmptyDict]

Doc(fields) == [exists |-> TRUE, fields |-> fields]

NoMonth == [habits |-> NoDoc, journal |-> NoDoc, tasks |-> NoDoc]

\* doc.to_dict() if doc.exists else {}
to_dict_or_empty(doc) == IF doc.exists THEN doc.fields ELSE EmptyDict

\* A load that hands the documents back in another order than the one
\* they were asked for.
load_month_data_unordered(st, uid, month_key) ==
    LET docs == st[<<uid, month_key>>]
        results == <<to_dict_or_empty(docs.journal),
                     to_dict_or_empty(docs.habits),
                     to_dict_or_empty(docs.tasks)>>
    IN  <<results[1], results[2], results[3]>>

\* load_month_data: one get_all of the three documents, answered in the
\* order of refs (line 149), each turned into its dict or {}.
load_month_data(st, uid, month_key) ==
    LET docs == st[<<uid, month_key>>]
        results == <<to_dict_or_empty(docs.habits),
                     to_dict_or_empty(docs.journal),
                     to_dict_or_empty(docs.tasks)>>
    IN  <<results[1], results[2], results[3]>>

\* batch.set(ref, data) with merge=True: the fields of data are laid over
\* the fields the document already has (used by update_user_settings, and
\* by the merging variant of save_month_data below).
set_merge(doc, fields) ==
    Doc([k \in (DOMAIN doc.fields) \cup (DOMAIN fields) |->
            IF k \in DOMAIN fields THEN fields[k] ELSE doc.fields[k]])

\* batch.commit(): the queued writes are applied all together, or, when the
\* commit raises, not at all.
batch_commit(st, key, writes, ok) ==
    IF ok THEN [st EXCEPT ![key] = writes] ELSE st

\* A save whose three batch.set calls pass merge=True.
save_month_data_merge(st, uid, month_key, habits_data, journal_data, tasks_data, ok) ==
    LET old == st[<<uid, month_key>>]
    IN  batch_commit(st, <<uid, month_key>>,
                     [habits  |-> set_merge(old.habits, habits_data),
                      journal |-> set_merge(old.journal, journal_data),
                      tasks   |-> set_merge(old.tasks, tasks_data)], ok)

\* A save that writes the three documents one by one; a failure after the
\* first write leaves the other two as they were.
save_month_data_torn(st, uid, month_key, habits_data, journal_data, tasks_data, ok) ==
    IF ok
    THEN [st EXCEPT ![<<uid, month_key>>] =
             [habits |-> Doc(habits_data), journal |-> Doc(journal_data),
              tasks |-> Doc(tasks_data)]]
    ELSE [st EXCEPT ![<<uid, month_key>>].habits = Doc(habits_data)]

\* save_month_data: three batch.set without merge, then batch.commit().
\* ok = FALSE is the commit raising.
save_month_data(st, uid, month_key, habits_data, journal_data, tasks_data, ok) ==
    batch_commit(st, <<uid, month_key>>,
                 [habits  |-> Doc(habits_data),
                  journal |-> Doc(journal_data),
                  tasks   |-> Doc(tasks_data)], ok)

\* get_user_settings
get_user_settings(pr, uid) == to_dict_or_empty(pr[uid])

\* update_user_settings: set(settings_data, merge=True)
update_user_settings(pr, uid, settings_data) ==
    [pr EXCEPT ![uid] = set_merge(pr[uid], settings_data)]

(***************************************************************************)
(* src/utils/auth.py: the identity provider's answer.  password_ok stands  *)
(* for the provider accepting the password.                                *)
(***************************************************************************)
\* resp.json() of an accepted request: it includes 'idToken', 'localId' and
\* 'refreshToken'.
AuthResult(uid) == [idToken |-> "idToken", localId |-> uid, refreshToken |-> "refreshToken"]

\* resp.json() of a refused request: it includes 'error' details.
AuthError(msg) == [error |-> [status |-> "INVALID_ARGUMENT", message |-> msg]]

login_user(acc, uid, password_ok) ==
    IF uid \in acc /\ password_ok THEN AuthResult(uid)
    ELSE AuthError("INVALID_LOGIN_CREDENTIALS")

signup_user(acc, uid, password_ok) ==
    IF uid \in acc THEN AuthError("EMAIL_EXISTS")
    ELSE IF ~password_ok THEN AuthError("WEAK_PASSWORD")
    ELSE AuthResult(uid)

(***************************************************************************)
(* src/main.py: session state                                              *)
(***************************************************************************)
EmptyData == [habits |-> EmptyDict, journal |-> EmptyDict, tasks |-> EmptyDict,
              month_key |-> None]

\* The three parts of a month bucket, without its month key.
Bucket(d) == [habits |-> d.habits, journal |-> d.journal, tasks |-> d.tasks]

\* The stored documents read back as a bucket.
StoredBucket(docs) ==
    [habits  |-> to_dict_or_empty(docs.habits),
     journal |-> to_dict_or_empty(docs.journal),
     tasks   |-> to_dict_or_empty(docs.tasks)]

\* The session as one record, so that the script is a function of it.
Session ==
    [store |-> store, profile |-> profile, accounts |-> accounts, keys |-> keys,
     user |-> user, settings |-> settings, data |-> data,
     savedchanges |-> savedchanges, last_autosave |-> last_autosave,
     habit_grid_df |-> habit_grid_df, habit_grid |-> habit_grid,
     selected_date |-> selected_date, current_month_key |-> current_month_key,
     stopped_at |-> stopped_at, error |-> error, message |-> message,
     log |-> << >>]

\* One step of the running interaction: a store operation (op "write" or
\* "read"), or the call of a handler (op "call": logout, Add Habit, Add
\* Task),
\* with the in-memory bucket, the snapshot, last_autosave and the stored
\* documents of the in-memory bucket's month at the moment the operation is
\* issued.  An entry with op "saved" holds the same at the moment save()
\* returns after a write.
LogEntry(s, op, by, key, ok) ==
    [op |-> op, by |-> by, key |-> key, ok |-> ok,
     mem |-> s.data, snap |-> s.savedchanges, last |-> s.last_autosave,
     stored |-> IF s.data.month_key = None THEN NoMonth
                ELSE s.store[<<s.user, s.data.month_key>>]]

Running(s) == s.stopped_at = "running"

\* An uncaught exception ends the script run where it is raised.
Raise(s, where, exc) == [s EXCEPT !.stopped_at = where, !.error = exc]

(***************************************************************************)
(* save(), lines 189-203.  by names the caller; ok = FALSE is the store    *)
(* write raising, which save() does not catch.                             *)
(***************************************************************************)
save_snapshot_first(s, by, ok) ==
    IF s.data /= s.savedchanges
    THEN Bind([s EXCEPT !.log = Append(@, LogEntry(s, "write", by, s.current_month_key, ok)),
                        !.store = save_month_data(s.store, s.user, s.current_month_key,
                                      s.data.habits, s.data.journal, s.data.tasks, ok),
                        !.savedchanges = s.data,
                        !.last_autosave = now],
              LAMBDA t :
                 IF ok
                 THEN [t EXCEPT !.log = Append(@, LogEntry(t, "saved", by,
                                                           s.current_month_key, TRUE))]
                 ELSE [t EXCEPT !.error = "StoreError"])
    ELSE s

save(s, by, ok) ==
    IF s.data /= s.savedchanges
    THEN Bind([s EXCEPT !.log = Append(@, LogEntry(s, "write", by, s.current_month_key, ok)),
                        !.store = save_month_data(s.store, s.user, s.current_month_key,
                                      s.data.habits, s.data.journal, s.data.tasks, ok)],
              LAMBDA t :
                 IF ok
                 THEN Bind([t EXCEPT !.savedchanges = t.data, !.last_autosave = now],
                           LAMBDA u : [u EXCEPT !.log = Append(@, LogEntry(u, "saved", by,
                                                               s.current_month_key, TRUE))])
                 ELSE [t EXCEPT !.error = "StoreError"])
    ELSE s

\* The Save Changes callback, line 228: an exception of save() is shown to
\* the user and the script body does not run.
SaveChangesCallback(s, ok) ==
    Bind(save(s, "save", ok),
         LAMBDA t : IF t.error /= None THEN [t EXCEPT !.stopped_at = "callback"] ELSE t)

\* A logout that lets the exception of save() escape: the callback ends
\* there and nothing is removed from the session.
logout_raising(s, ok) ==
    Bind([s EXCEPT !.log = Append(@, LogEntry(s, "call", "logout", None, TRUE))],
         LAMBDA c :
    Bind(IF "data" \in c.keys THEN save(c, "logout", ok) ELSE c, LAMBDA t :
        IF t.error /= None
        THEN t
        ELSE [t EXCEPT !.keys = @ \ {"habit_grid_df", "__logout_requested__",
                                     "user", "settings", "data"},
                       !.habit_grid_df = EmptyDict,
                       !.user = None,
                       !.settings = EmptyDict,
                       !.data = EmptyData]))

\* logout(), lines 210-223: the call is logged, save() is tried and its
\* exception dropped, then habit_grid_df, user, settings and data are popped.
logout(s, ok) ==
    Bind([s EXCEPT !.log = Append(@, LogEntry(s, "call", "logout", None, TRUE))],
         LAMBDA c :
    Bind(IF "data" \in c.keys THEN save(c, "logout", ok) ELSE c, LAMBDA t :
        [t EXCEPT !.error = None,
                  !.keys = @ \ {"habit_grid_df", "__logout_requested__",
                                "user", "settings", "data"},
                  !.habit_grid_df = EmptyDict,
                  !.user = None,
                  !.settings = EmptyDict,
                  !.data = EmptyData]))

(***************************************************************************)
(* The script, top to bottom.  w holds the widget values of the run:       *)
(*   w.button   the button pressed in this run, or None                    *)
(*   w.mode, w.uid, w.password_ok   the auth form                          *)
(*   w.name     the text of the Add Habit / Add Task input                 *)
(*   w.habit    the Delete Habit selectbox                                 *)
(*   w.typing, w.text   whether the user typed into the journal, and what  *)
(* f holds what the store does in this run: f.save_ok, f.load_ok,          *)
(* f.settings_ok, f.autosave_ok.                                           *)
(***************************************************************************)

\* Lines 50-51.
InitUser(s) ==
    IF "user" \notin s.keys
    THEN [s EXCEPT !.keys = @ \cup {"user"}, !.user = None]
    ELSE s

\* Lines 89-94: the settings of a new user.
settings_data(uid) ==
    [k \in {"email", "name", "date_of_account_creation", "reflection_questions"} |->
        CASE k = "email" -> uid
          [] k = "date_of_account_creation" -> "2025-11-01"
          [] OTHER -> ""]

\* One step of the auth form: the provider's answer (op "auth", key the
\* message of the answer's error, ok whether the answer holds 'idToken'),
\* or a call of get_user_settings (op "settings_read") or of
\* update_user_settings (op "settings_write").  by is the form's mode.
AuthEntry(s, op, by, key, ok) ==
    [op |-> op, by |-> by, key |-> key, ok |-> ok,
     mem |-> s.data, snap |-> s.savedchanges, last |-> s.last_autosave,
     stored |-> NoMonth]

\* Lines 82-94: the provider is asked, by mode.
AuthRequest(s, w) ==
    IF w.mode = "Login"
    THEN login_user(s.accounts, w.uid, w.password_ok)
    ELSE signup_user(s.accounts, w.uid, w.password_ok)

\* Lines 98-111: the answer holds 'idToken'.
AuthSuccess(s, w, f, result) ==
    Bind([s EXCEPT !.user = result.localId,
                   !.log = Append(@, AuthEntry(s, IF w.mode = "Login" THEN "settings_read"
                                                  ELSE "settings_write",
                                               w.mode, result.localId, f.settings_ok))],
         LAMBDA b :
            IF ~f.settings_ok
            THEN Raise(b, "auth_form", "StoreError")
            ELSE IF w.mode = "Login"
            THEN [b EXCEPT !.settings = get_user_settings(b.profile, result.localId),
                           !.keys = @ \cup {"settings"},
                           !.stopped_at = "rerun"]
            ELSE [b EXCEPT !.profile = update_user_settings(b.profile, result.localId,
                                           settings_data(w.uid)),
                           !.settings = settings_data(w.uid),
                           !.keys = @ \cup {"settings"},
                           !.stopped_at = "rerun"])

\* The provider's answer as the form sees it: the account exists after an
\* accepted Sign Up, and the answer is on record.
AuthAnswered(s, w, result) ==
    [s EXCEPT !.accounts = IF w.mode = "Sign Up" /\ "idToken" \in DOMAIN result
                           THEN @ \cup {w.uid} ELSE @,
              !.log = Append(@, AuthEntry(s, "auth", w.mode,
                                          DictGet(DictGet(result, "error", EmptyDict),
                                                  "message", None),
                                          "idToken" \in DOMAIN result))]

\* An auth form that shows its own text for a refused request.
AuthForm_own_message(s, w, f) ==
    IF w.button /= "auth_form"
    THEN [s EXCEPT !.stopped_at = "login"]
    ELSE
         Bind(AuthRequest(s, w),
              LAMBDA result :
                 Bind(AuthAnswered(s, w, result),
                      LAMBDA a :
                         IF "idToken" \in DOMAIN result
                         THEN AuthSuccess(a, w, f, result)
                         ELSE [a EXCEPT !.message = "An error occurred",
                                        !.stopped_at = "login"]))

\* Lines 62-117: the login screen.  It ends in st.stop(), in st.rerun()
\* after a successful authentication, or in the exception of a settings
\* read or write that fails.  Line 114 shows the message of the answer's
\* error, or "An error occurred" when the answer has none.
AuthForm(s, w, f) ==
    IF w.button /= "auth_form"
    THEN [s EXCEPT !.stopped_at = "login"]
    ELSE Bind(AuthRequest(s, w),
              LAMBDA result :
                 Bind(AuthAnswered(s, w, result),
                      LAMBDA a :
                         IF "idToken" \in DOMAIN result
                         THEN AuthSuccess(a, w, f, result)
                         ELSE [a EXCEPT !.message =
                                            DictGet(DictGet(result, "error", EmptyDict),
                                                    "message", "An error occurred"),
                                        !.stopped_at = "login"]))

\* Lines 128-144.
InitData(s) ==
    IF "data" \notin s.keys
    THEN [s EXCEPT !.keys = @ \cup {"data"}, !.data = EmptyData]
    ELSE s

\* Lines 162-176: the date picker reads settings['date_of_account_creation'];
\* current_month_key is the month of the selected date.
DateInput(s) ==
    IF "settings" \notin s.keys
    THEN Raise(s, "settings", "AttributeError")
    ELSE IF "date_of_account_creation" \notin DOMAIN s.settings
    THEN Raise(s, "settings", "KeyError")
    ELSE [s EXCEPT !.current_month_key = strftime_Ym(s.selected_date)]

\* Line 173.
day_key(s) == strftime_d(s.selected_date[2])

\* Lines 178-183.
InitSnapshot(s) ==
    Bind(IF "savedchanges" \notin s.keys
         THEN [s EXCEPT !.keys = @ \cup {"savedchanges"}, !.savedchanges = s.data]
         ELSE s,
         LAMBDA a : IF "last_autosave" \notin a.keys
                    THEN [a EXCEPT !.keys = @ \cup {"last_autosave"}, !.last_autosave = now]
                    ELSE a)

\* Lines 256-264: the write of the old month, under the old month's key.
MonthChangeSave(s, f) ==
    IF s.data.month_key /= None
    THEN Bind([s EXCEPT !.log = Append(@, LogEntry(s, "write", "switch",
                                                   s.data.month_key, f.save_ok)),
                        !.store = save_month_data(s.store, s.user, s.data.month_key,
                                      s.data.habits, s.data.journal, s.data.tasks,
                                      f.save_ok)],
              LAMBDA t : IF f.save_ok THEN t ELSE Raise(t, "switch", "StoreError"))
    ELSE s

\* Lines 266-278: the read of the new month, which replaces the bucket and
\* the snapshot, then st.rerun().
MonthChangeLoad(s, f) ==
    Bind([s EXCEPT !.log = Append(@, LogEntry(s, "read", "switch",
                                              s.current_month_key, f.load_ok))],
         LAMBDA t :
            IF ~f.load_ok
            THEN Raise(t, "switch", "StoreError")
            ELSE Bind(load_month_data(t.store, t.user, t.current_month_key), LAMBDA r :
                      [t EXCEPT !.data = [habits |-> r[1], journal |-> r[2],
                                          tasks |-> r[3],
                                          month_key |-> t.current_month_key],
                                !.savedchanges = [habits |-> r[1], journal |-> r[2],
                                                  tasks |-> r[3],
                                                  month_key |-> t.current_month_key],
                                !.keys = @ \cup {"savedchanges"},
                                !.stopped_at = "rerun"]))

\* A month change that reads the new month first and writes the old bucket
\* afterwards.
MonthChange_load_first(s, f) ==
    IF s.current_month_key /= s.data.month_key
    THEN Bind(MonthChangeLoad(s, f), LAMBDA a :
            IF a.error /= None THEN a
            ELSE Bind(MonthChangeSave([a EXCEPT !.data = s.data,
                                                !.stopped_at = "running"], f),
                      LAMBDA b : IF b.error /= None THEN b
                                 ELSE [b EXCEPT !.data = a.data, !.stopped_at = "rerun"]))
    ELSE s

\* A month change that installs the new month key before the read.
MonthChange_key_first(s, f) ==
    IF s.current_month_key /= s.data.month_key
    THEN Bind(MonthChangeSave(s, f), LAMBDA a :
            IF a.error /= None THEN a
            ELSE Bind(MonthChangeLoad(a, f),
                      LAMBDA b : IF b.error /= None
                                 THEN [b EXCEPT !.data.month_key = s.current_month_key]
                                 ELSE b))
    ELSE s

\* Lines 254-278.
MonthChange(s, f) ==
    IF s.current_month_key /= s.data.month_key
    THEN Bind(MonthChangeSave(s, f),
              LAMBDA a : IF a.error /= None THEN a ELSE MonthChangeLoad(a, f))
    ELSE s

\* Add Habit with range(1, 32) for every month.
AddHabit_31_days(s, w) ==
    IF w.button = "Add Habit"
    THEN Bind([s EXCEPT !.log = Append(@, LogEntry(s, "call", "Add Habit", w.name, TRUE))],
              LAMBDA c :
         IF w.name /= ""
         THEN [c EXCEPT !.data.habits = DictSet(@, w.name,
                             [k \in {str(d) : d \in 1..31} |-> FALSE]),
                        !.keys = @ \ {"habit_grid_df"},
                        !.habit_grid_df = EmptyDict,
                        !.stopped_at = "rerun"]
         ELSE [c EXCEPT !.message = "Please enter a habit name."])
    ELSE s

\* Add Habit without the test of the name.
AddHabit_no_validation(s, w) ==
    IF w.button = "Add Habit"
    THEN Bind([s EXCEPT !.log = Append(@, LogEntry(s, "call", "Add Habit", w.name, TRUE))],
              LAMBDA c :
         [c EXCEPT !.data.habits = DictSet(@, w.name,
                       [k \in {str(d) : d \in 1..days_in_month(c.current_month_key)}
                           |-> FALSE]),
                   !.keys = @ \ {"habit_grid_df"},
                   !.habit_grid_df = EmptyDict,
                   !.stopped_at = "rerun"])
    ELSE s

\* Lines 326-345: the click is logged with the name submitted.
AddHabit(s, w) ==
    IF w.button = "Add Habit"
    THEN Bind([s EXCEPT !.log = Append(@, LogEntry(s, "call", "Add Habit", w.name, TRUE))],
              LAMBDA c :
         IF w.name /= ""
         THEN [c EXCEPT !.data.habits = DictSet(@, w.name,
                             [k \in {str(d) : d \in 1..days_in_month(c.current_month_key)}
                                 |-> FALSE]),
                        !.keys = @ \ {"habit_grid_df"},
                        !.habit_grid_df = EmptyDict,
                        !.stopped_at = "rerun"]
         ELSE [c EXCEPT !.message = "Please enter a habit name."])
    ELSE s

\* Lines 348-363.
DeleteHabit(s, w) ==
    IF w.button = "Delete Habit"
    THEN [s EXCEPT !.data.habits = DictDel(@, w.habit),
                   !.keys = @ \ {"habit_grid_df"},
                   !.habit_grid_df = EmptyDict,
                   !.stopped_at = "rerun"]
    ELSE s

\* Columns of a frame whose rows are habits.
Columns(frame) == UNION {DOMAIN frame[h] : h \in DOMAIN frame}

\* pd.DataFrame(habits).T, line 378: one row per habit, one column per day
\* key of any habit; a cell a habit has no key for is NaN, which bool()
\* at line 404 turns into True.
DataFrameT(habits) ==
    [h \in DOMAIN habits |->
        [c \in Columns(habits) |-> IF c \in DOMAIN habits[h] THEN habits[h][c] ELSE TRUE]]

\* st.data_editor(frame[day_cols], key="habit_grid"): the frame with the
\* cells the user edited since the widget was created.
data_editor(frame, day_cols, edits) ==
    [h \in DOMAIN frame |->
        [c \in day_cols |-> IF <<h, c>> \in DOMAIN edits THEN edits[<<h, c>>]
                            ELSE frame[h][c]]]

\* Lines 372-409: the habit grid and its sync into the bucket.
HabitGrid(s) ==
    IF s.data.habits = EmptyDict
    THEN s
    ELSE Bind(DataFrameT(s.data.habits), LAMBDA df :
         Bind(IF \/ "habit_grid_df" \notin s.keys
                 \/ s.data.month_key /= s.current_month_key
              THEN [s EXCEPT !.keys = @ \cup {"habit_grid_df"},
                             !.habit_grid_df = df,
                             !.habit_grid = EmptyDict]
              ELSE s,
              LAMBDA a :
                 IF ~(Columns(df) \subseteq Columns(a.habit_grid_df))
                 THEN Raise(a, "grid", "KeyError")
                 ELSE [a EXCEPT !.data.habits =
                           data_editor(a.habit_grid_df, Columns(df), a.habit_grid)]))

\* Lines 424-428: sum(current_habit_data[h].get(day_key, False) for h in ...).
habits_completed(habits, key) ==
    Cardinality({h \in DOMAIN habits : DictGet(habits[h], key, FALSE)})

\* What the Journal tab shows above the text area (line 430): done and
\* total, for the day of the selected date, with the bucket of the moment.
JournalEntry(s) ==
    [op |-> "shown", by |-> "journal", key |-> day_key(s), ok |-> TRUE,
     mem |-> s.data, snap |-> s.savedchanges, last |-> s.last_autosave,
     stored |-> NoMonth,
     day |-> s.selected_date[2],
     done |-> habits_completed(s.data.habits, day_key(s)),
     total |-> Cardinality(DOMAIN s.data.habits)]

\* The text area of one run: the text it was given (existing_text), the
\* text it returned (new_text), and the bucket of the moment.
JournalTextEntry(s, existing_text, new_text) ==
    [op |-> "text", by |-> "journal", key |-> day_key(s), ok |-> TRUE,
     mem |-> s.data, snap |-> s.savedchanges, last |-> s.last_autosave,
     stored |-> NoMonth,
     existing_text |-> existing_text, new_text |-> new_text]

\* Lines 439-443: the day's entry, or the default prompt of the settings
\* when the entry is absent or empty.
ExistingText(s) ==
    IF DictGet(s.data.journal, day_key(s), "") /= ""
    THEN DictGet(s.data.journal, day_key(s), "")
    ELSE s.settings["reflection_questions"]

\* A journal tab that stores the text of the text area in every run.
JournalText_always_writes(s, w) ==
    IF "reflection_questions" \notin DOMAIN s.settings /\ DictGet(s.data.journal, day_key(s), "") = ""
    THEN Raise(s, "journal", "KeyError")
    ELSE Bind(ExistingText(s), LAMBDA existing_text :
         Bind(IF w.typing THEN w.text ELSE existing_text, LAMBDA new_text :
         Bind([s EXCEPT !.log = Append(@, JournalTextEntry(s, existing_text, new_text))],
              LAMBDA c : [c EXCEPT !.data.journal = DictSet(@, day_key(s), new_text)])))

\* Lines 439-458: the text area and the write of a changed text.  The text
\* area returns what the user typed in this run, or else the text it was
\* given.
JournalText(s, w) ==
    IF "reflection_questions" \notin DOMAIN s.settings /\ DictGet(s.data.journal, day_key(s), "") = ""
    THEN Raise(s, "journal", "KeyError")
    ELSE Bind(ExistingText(s), LAMBDA existing_text :
         Bind(IF w.typing THEN w.text ELSE existing_text, LAMBDA new_text :
         Bind([s EXCEPT !.log = Append(@, JournalTextEntry(s, existing_text, new_text))],
              LAMBDA c :
                 IF new_text /= existing_text
                 THEN [c EXCEPT !.data.journal = DictSet(@, day_key(s), new_text)]
                 ELSE c)))

\* Lines 416-458.
JournalTab(s, w) ==
    JournalText([s EXCEPT !.log = Append(@, JournalEntry(s))], w)

\* Lines 478-509: task_today is assigned at line 509 and read at lines 487
\* and 498, in a module namespace that is fresh in every run: NameError.
TasksTab(s, w) ==
    IF w.button = "Add Task"
    THEN Bind([s EXCEPT !.log = Append(@, LogEntry(s, "call", "Add Task", w.name, TRUE))],
              LAMBDA c :
         IF w.name /= ""
         THEN Raise(c, "tasks", "NameError")
         ELSE Raise([c EXCEPT !.message = "Please enter a task name."],
                    "tasks", "NameError"))
    ELSE Raise(s, "tasks", "NameError")

\* Lines 589-595.
Autosave(s, f) ==
    IF (now - s.last_autosave) >= AUTOSAVE_SECONDS
    THEN [save(s, "autosave", f.autosave_ok) EXCEPT !.error = None]
    ELSE s

\* A step of the script runs only if no earlier step ended the run.
Step(s, F(_)) == Bind(s, LAMBDA v : IF Running(v) THEN F(v) ELSE v)

\* Lines 120-595: the main app.
MainApp(s, w, f) ==
    Step(Step(Step(Step(Step(Step(Step(Step(Step(Step(s,
        LAMBDA v : InitData(v)),
        LAMBDA v : DateInput(v)),
        LAMBDA v : InitSnapshot(v)),
        LAMBDA v : MonthChange(v, f)),
        LAMBDA v : AddHabit(v, w)),
        LAMBDA v : DeleteHabit(v, w)),
        LAMBDA v : HabitGrid(v)),
        LAMBDA v : JournalTab(v, w)),
        LAMBDA v : TasksTab(v, w)),
        LAMBDA v : [Autosave(v, f) EXCEPT !.stopped_at = "end"])

\* One pass over the script.  A pass that st.stop() or st.rerun() ends
\* drops the state of the widgets it did not render: the date picker and
\* the grid editor on the login screen, the grid editor in the main app.
Script(s0, w, f) ==
    Bind(InitUser([s0 EXCEPT !.stopped_at = "running", !.error = None, !.message = None]),
         LAMBDA s1 :
            IF s1.user = None
            THEN [AuthForm(s1, w, f) EXCEPT !.selected_date = Today,
                                           !.habit_grid = EmptyDict]
            ELSE Bind(MainApp(s1, w, f),
                      LAMBDA s2 : IF s2.stopped_at = "rerun"
                                  THEN [s2 EXCEPT !.habit_grid = EmptyDict]
                                  ELSE s2))

\* The widget values of a pass that st.rerun() started: no button is
\* pressed and nothing is typed.
NoInput == [button |-> None, mode |-> "Login", uid |-> None, password_ok |-> FALSE,
            name |-> "", habit |-> None, typing |-> FALSE, text |-> ""]

\* After st.rerun() the script starts over at once.
Again(s, f) == Bind(s, LAMBDA v : IF v.stopped_at = "rerun" THEN Script(v, NoInput, f) ELSE v)

\* The script run of one interaction (login, then the first month load,
\* then the page: three passes at most).
Run(s0, w, f) == Again(Again(Script(s0, w, f), f), f)

(***************************************************************************)
(* Interactions                                                            *)
(***************************************************************************)
\* What the store does during one interaction.
Outcomes == [cb_ok : BOOLEAN, save_ok : BOOLEAN, load_ok : BOOLEAN,
             settings_ok : BOOLEAN, autosave_ok : BOOLEAN]

\* The session when an interaction starts.
Begin == [Session EXCEPT !.stopped_at = "running", !.error = None, !.message = None]

Commit(s) ==
    /\ store' = s.store
    /\ profile' = s.profile
    /\ accounts' = s.accounts
    /\ keys' = s.keys
    /\ user' = s.user
    /\ settings' = s.settings
    /\ data' = s.data
    /\ savedchanges' = s.savedchanges
    /\ last_autosave' = s.last_autosave
    /\ habit_grid_df' = s.habit_grid_df
    /\ habit_grid' = s.habit_grid
    /\ selected_date' = s.selected_date
    /\ current_month_key' = s.current_month_key
    /\ stopped_at' = s.stopped_at
    /\ error' = s.error
    /\ message' = s.message
    /\ log' = s.log
    /\ interactions < MaxInteractions
    /\ interactions' = interactions + 1
    /\ UNCHANGED <<now, db_call, graph_call>>

\* Which widgets the last run rendered, by where it ended.
HeaderRendered == stopped_at \in {"switch", "grid", "journal", "tasks", "end"}

HabitTabRendered == stopped_at \in {"grid", "journal", "tasks", "end"}

GridRendered == stopped_at \in {"journal", "tasks", "end"} /\ data.habits /= EmptyDict

JournalRendered == stopped_at \in {"tasks", "end"}

\* The user waits.
Tick ==
    /\ \E dt \in Delays :
          /\ now + dt <= MaxNow
          /\ now' = now + dt
    /\ UNCHANGED <<store, profile, accounts, keys, user, settings, data, savedchanges,
                   last_autosave, habit_grid_df, habit_grid, selected_date,
                   current_month_key, stopped_at, error, message, log, interactions,
                   db_call, graph_call>>

\* The user reruns the script without changing a widget.
Rerun ==
    \E f \in Outcomes :
       /\ f.cb_ok /\ f.settings_ok /\ f.autosave_ok
       /\ \E r \in {Run(Begin, NoInput, f)} : Commit(r)

\* Lines 77-117: the user submits the auth form.
SubmitAuth ==
    /\ stopped_at = "login"
    /\ \E mode \in {"Login", "Sign Up"}, uid \in Users, password_ok \in BOOLEAN,
          f \in Outcomes :
          /\ f.cb_ok /\ f.save_ok /\ f.autosave_ok
          /\ \E r \in {Run(Begin, [NoInput EXCEPT !.button = "auth_form", !.mode = mode,
                                               !.uid = uid, !.password_ok = password_ok], f)} : Commit(r)

\* Lines 162-168: the user picks another date.
SelectDate ==
    /\ HeaderRendered
    /\ \E d \in SelectableDates \ {selected_date}, f \in Outcomes :
          /\ f.cb_ok /\ f.settings_ok /\ f.autosave_ok
          /\ \E r \in {Run([Begin EXCEPT !.selected_date = d], NoInput, f)} : Commit(r)

\* Line 228: the user clicks Save Changes; the callback runs, then the script.
ClickSave ==
    /\ HeaderRendered
    /\ \E f \in Outcomes :
          /\ f.settings_ok /\ f.autosave_ok
          /\ \E s \in {SaveChangesCallback(Begin, f.cb_ok)} :
             \E r \in {IF s.stopped_at = "callback" THEN s ELSE Run(s, NoInput, f)} :
                Commit(r)

\* Line 229: the user clicks Logout; the callback runs, then the script.
ClickLogout ==
    /\ HeaderRendered
    /\ \E f \in Outcomes :
          /\ f.settings_ok /\ f.save_ok /\ f.load_ok /\ f.autosave_ok
          /\ \E r \in {Run(logout(Begin, f.cb_ok), NoInput, f)} : Commit(r)

\* Lines 327-345: the user clicks Add Habit.
ClickAddHabit ==
    /\ HabitTabRendered
    /\ \E name \in HabitNames \cup {""}, f \in Outcomes :
          /\ f.cb_ok /\ f.settings_ok /\ f.save_ok /\ f.load_ok /\ f.autosave_ok
          /\ \E r \in {Run(Begin, [NoInput EXCEPT !.button = "Add Habit", !.name = name], f)} : Commit(r)

\* Lines 350-363: the user clicks Delete Habit.
ClickDeleteHabit ==
    /\ HabitTabRendered
    /\ \E h \in DOMAIN data.habits, f \in Outcomes :
          /\ f.cb_ok /\ f.settings_ok /\ f.save_ok /\ f.load_ok /\ f.autosave_ok
          /\ \E r \in {Run(Begin, [NoInput EXCEPT !.button = "Delete Habit", !.habit = h], f)} : Commit(r)

\* Lines 393-396: the user toggles a cell of the habit grid.
ToggleCell ==
    /\ GridRendered
    /\ \E h \in DOMAIN data.habits, c \in EditDays, f \in Outcomes :
          /\ c \in DOMAIN data.habits[h]
          /\ f.cb_ok /\ f.settings_ok /\ f.save_ok /\ f.load_ok /\ f.autosave_ok
          /\ \E r \in {Run([Begin EXCEPT !.habit_grid =
                                         DictSet(@, <<h, c>>, ~data.habits[h][c])],
                        NoInput, f)} : Commit(r)

\* Lines 448-453: the user types into the journal text area.
TypeJournal ==
    /\ JournalRendered
    /\ \E text \in Texts, f \in Outcomes :
          /\ f.cb_ok /\ f.settings_ok /\ f.save_ok /\ f.load_ok /\ f.autosave_ok
          /\ \E r \in {Run(Begin, [NoInput EXCEPT !.typing = TRUE, !.text = text], f)} : Commit(r)

\* Lines 483-492: the user clicks Add Task.
ClickAddTask ==
    /\ JournalRendered
    /\ \E name \in TaskNames \cup {""}, f \in Outcomes :
          /\ f.cb_ok /\ f.settings_ok /\ f.save_ok /\ f.load_ok /\ f.autosave_ok
          /\ \E r \in {Run(Begin, [NoInput EXCEPT !.button = "Add Task", !.name = name], f)} : Commit(r)

NoGraphCall == [fn |-> "none", impl |-> None, habits_data |-> << >>,
                selected_habits |-> << >>, result |-> [raised |-> None]]

NoCall == [op |-> "none", uid |-> None, month_key |-> None, ok |-> TRUE,
           given |-> NoMonth, before |-> NoMonth, result |-> <<>>]

\* A browser session that has not run the script yet.
InitSession ==
    /\ profile = [u \in Users |-> NoDoc]
    /\ accounts = {}
    /\ keys = {"user"}
    /\ user = None
    /\ settings = EmptyDict
    /\ data = EmptyData
    /\ savedchanges = EmptyData
    /\ last_autosave = 0
    /\ habit_grid_df = EmptyDict
    /\ habit_grid = EmptyDict
    /\ selected_date = Today
    /\ current_month_key = None
    /\ stopped_at = "login"
    /\ error = None
    /\ message = None
    /\ now = 0
    /\ log = << >>
    /\ interactions = 0
    /\ db_call = NoCall

Init ==
    /\ store = [k \in Users \X Months |-> NoMonth]
    /\ InitSession
    /\ graph_call = NoGraphCall

Next ==
    \/ Tick
    \/ Rerun
    \/ SubmitAuth
    \/ SelectDate
    \/ ClickSave
    \/ ClickLogout
    \/ ClickAddHabit
    \/ ClickDeleteHabit
    \/ ToggleCell
    \/ TypeJournal
    \/ ClickAddTask

Spec == Init /\ [][Next]_vars

(***************************************************************************)
(* The store adapter on its own: save_month_data and load_month_data       *)
(* called with any of the sample buckets, the commit succeeding or not.    *)
(***************************************************************************)
HabitDocs ==
    <<EmptyDict,
      "Read" :> ("1" :> TRUE @@ "2" :> FALSE),
      "Read" :> ("1" :> FALSE @@ "2" :> FALSE) @@ "Gym" :> ("1" :> TRUE @@ "2" :> TRUE)>>

JournalDocs == <<EmptyDict, "05" :> "x", "05" :> "" @@ "21" :> "y">>

TaskDocs == <<EmptyDict, "05" :> ("Call" :> FALSE),
              "05" :> ("Call" :> TRUE @@ "Shop" :> FALSE)>>

\* The buckets the adapter is called with: <<habits, journal, tasks>>.
SampleBuckets ==
    {<<HabitDocs[i[1]], JournalDocs[i[2]], TaskDocs[i[3]]>> :
        i \in {<<1, 1, 1>>, <<2, 2, 2>>, <<3, 3, 3>>, <<1, 3, 2>>, <<2, 1, 3>>}}

DbSave ==
    /\ \E uid \in Users, month_key \in Months, b \in SampleBuckets, ok \in BOOLEAN :
          /\ store' = save_month_data(store, uid, month_key, b[1], b[2], b[3], ok)
          /\ db_call' = [op |-> "save", uid |-> uid, month_key |-> month_key, ok |-> ok,
                         given |-> [habits |-> Doc(b[1]),
                                    journal |-> Doc(b[2]),
                                    tasks |-> Doc(b[3])],
                         before |-> store[<<uid, month_key>>],
                         result |-> << >>]
    /\ UNCHANGED <<profile, accounts, keys, user, settings, data, savedchanges,
                   last_autosave, habit_grid_df, habit_grid, selected_date,
                   current_month_key, stopped_at, error, message, now, log, interactions,
                   graph_call>>

DbLoad ==
    /\ \E uid \in Users, month_key \in Months :
          db_call' = [op |-> "load", uid |-> uid, month_key |-> month_key, ok |-> TRUE,
                      given |-> NoMonth,
                      before |-> store[<<uid, month_key>>],
                      result |-> load_month_data(store, uid, month_key)]
    /\ UNCHANGED <<store, profile, accounts, keys, user, settings, data, savedchanges,
                   last_autosave, habit_grid_df, habit_grid, selected_date,
                   current_month_key, stopped_at, error, message, now, log, interactions,
                   graph_call>>

\* What the user types into the password field of the auth form.
Passwords == {"pw1", "pw2"}

\* The scripts that hold the auth form.
AuthScripts == {"src/main.py", "src/streamlit_app.py"}

\* src/streamlit_app.py, lines 56-61: the settings of a new user.
streamlit_app_settings_data(email, password) ==
    [k \in {"email", "password", "date_of_account_creation", "reflection_questions"} |->
        CASE k = "email" -> email
          [] k = "password" -> password
          [] k = "date_of_account_creation" -> "2025-11-01"
          [] OTHER -> ""]

\* The settings_data the Sign Up branch of a script builds.
signup_settings_data(script, email, password) ==
    IF script = "src/main.py" THEN settings_data(email)
    ELSE streamlit_app_settings_data(email, password)

\* A Sign Up the provider accepted: the form calls
\* db.update_user_settings(result['localId'], settings_data).
DbSignupSettings ==
    /\ \E script \in AuthScripts, uid \in Users, password \in Passwords :
          /\ profile' = update_user_settings(profile, uid,
                                             signup_settings_data(script, uid, password))
          /\ db_call' = [op |-> "update_user_settings", uid |-> uid, month_key |-> None,
                         ok |-> TRUE,
                         given |-> signup_settings_data(script, uid, password),
                         before |-> profile[uid],
                         result |-> << >>]
    /\ UNCHANGED <<store, accounts, keys, user, settings, data, savedchanges,
                   last_autosave, habit_grid_df, habit_grid, selected_date,
                   current_month_key, stopped_at, error, message, now, log, interactions,
                   graph_call>>

NextDb ==
    \/ DbSave
    \/ DbLoad
    \/ DbSignupSettings

\* The documents a month may hold before the adapter is called: none, or,
\* written by another client of the store, some of the three.
StoredMonths ==
    {NoMonth,
     [habits |-> Doc(HabitDocs[2]), journal |-> NoDoc, tasks |-> Doc(TaskDocs[2])],
     [habits |-> NoDoc, journal |-> Doc(JournalDocs[2]), tasks |-> NoDoc]}

InitDb ==
    /\ store \in [Users \X Months -> StoredMonths]
    /\ InitSession
    /\ graph_call = NoGraphCall

SpecDb == InitDb /\ [][NextDb]_vars

(***************************************************************************)
(* The chart functions: src/utils/graphs.py and the older src/graphs.py.   *)
(* habits_data is a Python dict whose insertion order shows in the result: *)
(* a sequence of <<habit_name, days_dict>> with distinct names.  A result  *)
(* is what the figure plots: its x and y lists, or the exception raised.   *)
(***************************************************************************)
\* habits_data.get(habit_name, {})
habits_get(habits_data, habit_name) ==
    IF \E i \in 1..Len(habits_data) : habits_data[i][1] = habit_name
    THEN habits_data[CHOOSE i \in 1..Len(habits_data) : habits_data[i][1] = habit_name][2]
    ELSE EmptyDict

\* Lines 51-54: the habits from the i-th on that have day_str set to True.
RECURSIVE score(_, _, _)
score(habits_data, day_str, i) ==
    IF i > Len(habits_data)
    THEN 0
    ELSE (IF day_str \in DOMAIN habits_data[i][2] /\ habits_data[i][2][day_str]
          THEN 1 ELSE 0) + score(habits_data, day_str, i + 1)

\* Lines 43-56: daily_scores, keyed str(1) .. str(31) in that order.
daily_scores(habits_data) ==
    [day \in 1..31 |-> <<str(day), score(habits_data, str(day), 1)>>]

\* plot_daily_score: x = list(daily_scores.keys()), y = list(daily_scores.values()).
plot_daily_score(scores) ==
    [raised |-> None,
     x |-> [i \in 1..Len(scores) |-> scores[i][1]],
     y |-> [i \in 1..Len(scores) |-> scores[i][2]]]

\* A daily score that counts the habits that have the day, done or not.
calculate_daily_score_present(habits_data) ==
    plot_daily_score([day \in 1..31 |->
        <<str(day), Cardinality({i \in 1..Len(habits_data) :
                                    str(day) \in DOMAIN habits_data[i][2]})>>])

\* src/utils/graphs.py, calculate_daily_score.
calculate_daily_score(habits_data) == plot_daily_score(daily_scores(habits_data))

\* src/graphs.py, calculate_daily_score: the same statements.
graphs_calculate_daily_score(habits_data) == plot_daily_score(daily_scores(habits_data))

\* sum(1 for value in days_dict.values() if value), over the keys ks.
RECURSIVE sum_true(_, _)
sum_true(days_dict, ks) ==
    IF ks = {}
    THEN 0
    ELSE LET k == CHOOSE k \in ks : TRUE
         IN  (IF days_dict[k] THEN 1 ELSE 0) + sum_true(days_dict, ks \ {k})

\* habit_totals: one <<habit_name, total>> per habit, in insertion order.
habit_totals(habits_data) ==
    [i \in 1..Len(habits_data) |->
        <<habits_data[i][1], sum_true(habits_data[i][2], DOMAIN habits_data[i][2])>>]

Reverse(seq) == [i \in 1..Len(seq) |-> seq[Len(seq) + 1 - i]]

\* x put into an ascending list after every element that is not greater.
insort(sorted, x) ==
    LET n == Cardinality({j \in 1..Len(sorted) : sorted[j][2] <= x[2]})
    IN  SubSeq(sorted, 1, n) \o <<x>> \o SubSeq(sorted, n + 1, Len(sorted))

\* A stable ascending sort of <<name, total>> pairs by total.
RECURSIVE stable_sort(_)
stable_sort(seq) ==
    IF seq = << >>
    THEN << >>
    ELSE insort(stable_sort(SubSeq(seq, 1, Len(seq) - 1)), seq[Len(seq)])

\* An ascending sort whose result is reversed: equal totals come out in
\* reverse order.
sorted_then_reversed(pairs) == Reverse(stable_sort(pairs))

\* sorted(pairs, key=lambda x: x[1], reverse=True): Python reverses the
\* list, sorts it stably and reverses the result, which keeps equal keys in
\* their original order.
sorted_reverse(pairs) == Reverse(stable_sort(Reverse(pairs)))

\* src/utils/graphs.py, plot_habit_consistency (lines 157-162).
plot_habit_consistency(totals) ==
    LET sorted_data == sorted_reverse(totals)
    IN  IF sorted_data /= << >>
        THEN [raised |-> None,
              x |-> [i \in 1..Len(sorted_data) |-> sorted_data[i][1]],
              y |-> [i \in 1..Len(sorted_data) |-> sorted_data[i][2]]]
        ELSE [raised |-> None, x |-> << >>, y |-> << >>]

\* src/graphs.py, plot_habit_consistency (lines 89-94): zip(*sorted_data) of
\* an empty list yields nothing, and unpacking it into two names raises.
graphs_plot_habit_consistency(totals) ==
    LET sorted_data == sorted_reverse(totals)
    IN  IF sorted_data = << >>
        THEN [raised |-> "ValueError"]
        ELSE [raised |-> None,
              x |-> [i \in 1..Len(sorted_data) |-> sorted_data[i][1]],
              y |-> [i \in 1..Len(sorted_data) |-> sorted_data[i][2]]]

\* src/utils/graphs.py, calculate_habit_consistency.
calculate_habit_consistency(habits_data) ==
    plot_habit_consistency(habit_totals(habits_data))

\* src/graphs.py, calculate_habit_consistency.
graphs_calculate_habit_consistency(habits_data) ==
    graphs_plot_habit_consistency(habit_totals(habits_data))

\* int(d) of a day key, zero padded or not.
int(k) == CHOOSE n \in 0..99 : k = ToString(n) \/ k = "0" \o ToString(n)

\* sorted(...) of a list of distinct ints.
RECURSIVE sorted_ints(_)
sorted_ints(S) ==
    IF S = {}
    THEN << >>
    ELSE LET m == CHOOSE m \in S : \A n \in S : m <= n
         IN  <<m>> \o sorted_ints(S \ {m})

\* Lines 216-230: the trace of one selected habit.
trend_trace(habits_data, habit_name) ==
    LET days_dict == habits_get(habits_data, habit_name)
        days == sorted_ints({int(d) : d \in DOMAIN days_dict})
    IN  IF \E j \in 1..Len(days) : str(days[j]) \notin DOMAIN days_dict
        THEN [raised |-> "KeyError"]
        ELSE [raised |-> None, name |-> habit_name, x |-> days,
              y |-> [j \in 1..Len(days) |-> IF days_dict[str(days[j])] THEN 1 ELSE 0]]

\* A trend with a point for each of the days 1..31, absent days as 0.
plot_individual_trends_all_days(habits_data, selected_habits) ==
    [raised |-> None,
     traces |-> [idx \in 1..Len(selected_habits) |->
        LET days_dict == habits_get(habits_data, selected_habits[idx])
        IN  [raised |-> None, name |-> selected_habits[idx],
             x |-> [d \in 1..31 |-> d],
             y |-> [d \in 1..31 |-> IF DictGet(days_dict, str(d), FALSE) THEN 1 ELSE 0]]]]

\* src/utils/graphs.py, plot_individual_trends: one trace per selected name.
plot_individual_trends(habits_data, selected_habits) ==
    LET traces == [idx \in 1..Len(selected_habits) |->
                      trend_trace(habits_data, selected_habits[idx])]
    IN  IF \E idx \in 1..Len(traces) : traces[idx].raised /= None
        THEN [raised |-> "KeyError"]
        ELSE [raised |-> None, traces |-> traces]

\* The inputs of the chart functions.
GraphHabitNames == {"Gym", "Read", "Run"}

\* Day maps with the days "2" and "10", with "2" alone, and with no day.
DayMaps == [{"2", "10"} -> BOOLEAN] \cup [{"2"} -> BOOLEAN] \cup {EmptyDict}

MaxHabits == 3

\* The habit dicts of up to MaxHabits habits, in every insertion order.
HabitSets ==
    UNION {{[i \in 1..n |-> <<names[i], maps[i]>>] :
               names \in {q \in [1..n -> GraphHabitNames] :
                             \A i, j \in 1..n : i /= j => q[i] /= q[j]},
               maps \in [1..n -> DayMaps]} : n \in 0..MaxHabits}

\* What the user selects in the multiselect; "Swim" is no habit.
Selections == {<< >>, <<"Read">>, <<"Swim">>, <<"Run", "Gym">>, <<"Gym", "Swim", "Read">>}

GraphImpls == {"src/utils/graphs.py", "src/graphs.py"}

\* The chart functions are called on the habits of a session that has
\* loaded them: any of HabitSets, with any of Selections selected.
InitGraphs ==
    /\ store = [k \in Users \X Months |-> NoMonth]
    /\ InitSession
    /\ \E habits_data \in HabitSets, selected_habits \in Selections :
          graph_call = [NoGraphCall EXCEPT !.habits_data = habits_data,
                                           !.selected_habits = selected_habits]

CallDailyScore ==
    /\ graph_call.fn = "none"
    /\ \E impl \in GraphImpls :
          graph_call' = [graph_call EXCEPT
                            !.fn = "calculate_daily_score", !.impl = impl,
                            !.result = IF impl = "src/graphs.py"
                                       THEN graphs_calculate_daily_score(graph_call.habits_data)
                                       ELSE calculate_daily_score(graph_call.habits_data)]
    /\ UNCHANGED <<store, profile, accounts, keys, user, settings, data, savedchanges,
                   last_autosave, habit_grid_df, habit_grid, selected_date,
                   current_month_key, stopped_at, error, message, now, log, interactions,
                   db_call>>

CallHabitConsistency ==
    /\ graph_call.fn = "none"
    /\ \E impl \in GraphImpls :
          graph_call' = [graph_call EXCEPT
                            !.fn = "calculate_habit_consistency", !.impl = impl,
                            !.result = IF impl = "src/graphs.py"
                                       THEN graphs_calculate_habit_consistency(graph_call.habits_data)
                                       ELSE calculate_habit_consistency(graph_call.habits_data)]
    /\ UNCHANGED <<store, profile, accounts, keys, user, settings, data, savedchanges,
                   last_autosave, habit_grid_df, habit_grid, selected_date,
                   current_month_key, stopped_at, error, message, now, log, interactions,
                   db_call>>

CallIndividualTrends ==
    /\ graph_call.fn = "none"
    /\ graph_call' = [graph_call EXCEPT
                         !.fn = "plot_individual_trends", !.impl = "src/utils/graphs.py",
                         !.result = plot_individual_trends(graph_call.habits_data,
                                                           graph_call.selected_habits)]
    /\ UNCHANGED <<store, profile, accounts, keys, user, settings, data, savedchanges,
                   last_autosave, habit_grid_df, habit_grid, selected_date,
                   current_month_key, stopped_at, error, message, now, log, interactions,
                   db_call>>

NextGraphs ==
    \/ CallDailyScore
    \/ CallHabitConsistency
    \/ CallIndividualTrends

SpecGraphs == InitGraphs /\ [][NextGraphs]_vars

(***************************************************************************)
(* Properties                                                              *)
(***************************************************************************)

C7_AtomicSave ==
    (db_call.op = "save") =>
        \/ store[<<db_call.uid, db_call.month_key>>] = db_call.given
        \/ store[<<db_call.uid, db_call.month_key>>] = db_call.before

\* C7 witness: a save whose commit fails, over stored documents that differ
\* from the supplied ones in all three parts.
C7_Witness ==
    /\ db_call.op = "save" /\ ~db_call.ok
    /\ db_call.before.habits.exists
    /\ db_call.before.habits /= db_call.given.habits
    /\ db_call.before.journal /= db_call.given.journal
    /\ db_call.before.tasks /= db_call.given.tasks

\* The store operations of the last interaction that the month change issued.
SwitchOps == {i \in 1..Len(log) : log[i].by = "switch"}

\* The bucket differs from the snapshot (save()'s test, line 194).
Dirty(d, snap) == d /= snap

\* C1: whenever the month change reads the new month while a month A is
\* loaded, the operation just before it is the write of the in-memory bucket
\* under key A, that write has succeeded, and when the read is issued the
\* store's habits, journal and tasks for A equal the in-memory bucket as it
\* was at the moment of switching.
C1_MonthSwitchOrdering ==
    \A i \in SwitchOps :
        (log[i].op = "read" /\ log[i].mem.month_key /= None) =>
            /\ i > 1
            /\ log[i - 1].op = "write" /\ log[i - 1].by = "switch" /\ log[i - 1].ok
            /\ log[i - 1].key = log[i].mem.month_key
            /\ log[i].key /= log[i].mem.month_key
            /\ log[i - 1].mem = log[i].mem
            /\ StoredBucket(log[i].stored) = Bucket(log[i].mem)

\* C1 witness: a month change with a Dirty bucket whose write changed the
\* stored documents of the old month and whose read was then issued.
C1_Witness ==
    \E i \in SwitchOps :
        /\ i > 1
        /\ log[i].op = "read" /\ log[i].mem.month_key /= None
        /\ Dirty(log[i - 1].mem, log[i - 1].snap)
        /\ Bucket(log[i - 1].mem) /= Bucket(log[i - 1].snap)
        /\ log[i - 1].stored /= log[i].stored

\* C2: after an interaction in which a month change from a loaded month has
\* read the new month (the following rerun included), the in-memory habits,
\* journal and tasks are exactly what the store holds for the new month.
C2_NoMergeAcrossMonths ==
    (\E i \in SwitchOps : log[i].op = "read" /\ log[i].ok /\ log[i].mem.month_key /= None) =>
        Bucket(data) = StoredBucket(store[<<user, data.month_key>>])

\* C3: no flush trigger (Save Changes, autosave, logout, month change)
\* issues a store write while the in-memory bucket equals the snapshot.
C3_CleanFlushWritesNothing ==
    \A i \in 1..Len(log) : log[i].op = "write" => Dirty(log[i].mem, log[i].snap)

\* C4: when save() returns after a successful store write, the snapshot
\* equals the in-memory bucket and the store's habits, journal and tasks for
\* the bucket's month equal the in-memory ones.
C4_FlushPostcondition ==
    \A i \in 1..Len(log) :
        log[i].op = "saved" =>
            /\ log[i].snap = log[i].mem
            /\ StoredBucket(log[i].stored) = Bucket(log[i].mem)

\* The day keys of the selectable dates.
DayKeys == {strftime_d(d[2]) : d \in SelectableDates}

\* The values of a bucket as the user sees and edits them: the habit cells,
\* the text of each day (none and "" are both the empty text) and the tasks.
UserView(d) ==
    [habits |-> d.habits,
     journal |-> [k \in DayKeys |-> DictGet(d.journal, k, "")],
     tasks |-> d.tasks,
     month_key |-> d.month_key]

\* C5: whenever every value of the loaded bucket is what it was at the last
\* load or save, the bucket is Clean (it equals the snapshot), so that the
\* next flush trigger issues no write.
C5_RevertIsClean ==
    ("data" \in keys /\ "savedchanges" \in keys /\ data.month_key /= None
        /\ UserView(data) = UserView(savedchanges))
    => ~Dirty(data, savedchanges)

\* C8: after an interaction whose month change failed at the write of the
\* old month or at the read of the new one, the exception is shown to the
\* user and the month key, habits, journal and tasks in memory are exactly
\* those of the moment of switching.
C8_FailedSwitchKeepsState ==
    \A i \in SwitchOps :
        ~log[i].ok =>
            /\ i = Len(log)
            /\ error = "StoreError"
            /\ stopped_at = "switch"
            /\ data = log[i].mem
            /\ savedchanges = log[i].snap

\* C8 witness: a month change away from a loaded month with unsaved edits
\* whose read of the new month failed.
C8_Witness ==
    \E i \in SwitchOps :
        /\ log[i].op = "read" /\ ~log[i].ok
        /\ log[i].mem.month_key /= None
        /\ Bucket(log[i].mem) /= Bucket(log[i].snap)

\* C9: a failed autosave write is swallowed and retried: a run of the page
\* that gets past the journal with a bucket that is still Dirty at its end
\* and AUTOSAVE_SECONDS or more since last_autosave has attempted the
\* autosave write (and failed), and shows no store error.
C9_AutosaveRetries ==
    (stopped_at \in {"tasks", "end"} /\ Dirty(data, savedchanges)
        /\ now - last_autosave >= AUTOSAVE_SECONDS)
    => /\ \E i \in 1..Len(log) : log[i].by = "autosave" /\ log[i].op = "write" /\ ~log[i].ok
       /\ error /= "StoreError"

\* C10: when the store write of a Save Changes click raises, the exception
\* is shown to the user, the snapshot and last_autosave are what they were
\* before the click, and the bucket is still Dirty.
C10_ExplicitSaveFailsLoud ==
    \A i \in 1..Len(log) :
        (log[i].by = "save" /\ log[i].op = "write" /\ ~log[i].ok) =>
            /\ error = "StoreError"
            /\ stopped_at = "callback"
            /\ savedchanges = log[i].snap
            /\ last_autosave = log[i].last
            /\ data = log[i].mem
            /\ Dirty(data, savedchanges)

\* C10 witness: a Save Changes click whose store write raised, a minute
\* after the last save.
C10_Witness ==
    /\ \E i \in 1..Len(log) : log[i].by = "save" /\ log[i].op = "write" /\ ~log[i].ok
    /\ now > last_autosave

\* The calls of logout() in the last interaction.
LogoutCalls == {i \in 1..Len(log) : log[i].op = "call" /\ log[i].by = "logout"}

\* C11: after a Logout click, whether the bucket was Clean, or Dirty and
\* written, or Dirty and the write raised, a Dirty bucket's write has been
\* attempted, no error is shown, user, settings and data are gone from the
\* session, and the rerun has ended on the login screen.
C11_LogoutNeverBlocked ==
    \A i \in LogoutCalls :
        /\ Dirty(log[i].mem, log[i].snap) =>
               /\ i < Len(log)
               /\ log[i + 1].op = "write" /\ log[i + 1].by = "logout"
               /\ log[i + 1].mem = log[i].mem
        /\ error = None
        /\ stopped_at = "login"
        /\ user = None
        /\ keys \cap {"settings", "data", "habit_grid_df"} = {}
        /\ settings = EmptyDict
        /\ data = EmptyData

\* C11 witness: a Logout click with a Dirty bucket whose store write raised.
C11_Witness ==
    \E i \in LogoutCalls :
        /\ i < Len(log)
        /\ log[i + 1].op = "write" /\ log[i + 1].by = "logout" /\ ~log[i + 1].ok
        /\ log[i].mem.habits /= EmptyDict

\* The autosave writes of the last interaction.
AutosaveWrites == {i \in 1..Len(log) : log[i].by = "autosave" /\ log[i].op = "write"}

\* C12: every run of the main app of a logged-in session without a month
\* change reaches the end of the script, where the autosave guard is; an
\* autosave write is only issued for a Dirty bucket with AUTOSAVE_SECONDS or
\* more since last_autosave, and a bucket that is Dirty with that much time
\* elapsed when the run ends has had its write attempted.
C12_OpportunisticAutosave ==
    (user /= None /\ "data" \in keys /\ data.month_key /= None
        /\ stopped_at /= "callback" /\ SwitchOps = {})
    => /\ stopped_at = "end"
       /\ \A i \in AutosaveWrites :
             /\ Dirty(log[i].mem, log[i].snap)
             /\ now - log[i].last >= AUTOSAVE_SECONDS
       /\ (Dirty(data, savedchanges) /\ now - last_autosave >= AUTOSAVE_SECONDS)
             => AutosaveWrites /= {}

\* The number of true entries of a day map.
TrueCount(days_dict) == Cardinality({k \in DOMAIN days_dict : days_dict[k]})

\* The names of a habit dict, and the position of a name in it.
NamesOf(habits_data) == {habits_data[i][1] : i \in 1..Len(habits_data)}

PosOf(habits_data, habit_name) ==
    CHOOSE i \in 1..Len(habits_data) : habits_data[i][1] = habit_name

RECURSIVE SeqSum(_)
SeqSum(seq) == IF seq = << >> THEN 0 ELSE seq[1] + SeqSum(Tail(seq))

\* C13: calculate_daily_score (both files) plots, for each day 1..31 in
\* order, under the key str(d), the number of habits whose map has str(d)
\* set to true; a day missing from a habit's map counts as false and the
\* empty habit dict gives 31 zeros.
C13_DailyScore ==
    graph_call.fn = "calculate_daily_score" =>
        /\ graph_call.result.raised = None
        /\ Len(graph_call.result.x) = 31 /\ Len(graph_call.result.y) = 31
        /\ \A d \in 1..31 :
              /\ graph_call.result.x[d] = str(d)
              /\ graph_call.result.y[d] =
                    Cardinality({i \in 1..Len(graph_call.habits_data) :
                                    /\ str(d) \in DOMAIN graph_call.habits_data[i][2]
                                    /\ graph_call.habits_data[i][2][str(d)]})
              /\ graph_call.habits_data = << >> => graph_call.result.y[d] = 0

\* C13 witness: a daily score of three habits, one without day "10", one
\* with day "10" false and one with day "10" true.
C13_Witness ==
    /\ graph_call.fn = "calculate_daily_score"
    /\ Len(graph_call.habits_data) = 3
    /\ \E i, j, k \in 1..3 :
          /\ "10" \notin DOMAIN graph_call.habits_data[i][2]
          /\ "10" \in DOMAIN graph_call.habits_data[j][2]
          /\ ~graph_call.habits_data[j][2]["10"]
          /\ "10" \in DOMAIN graph_call.habits_data[k][2]
          /\ graph_call.habits_data[k][2]["10"]
    /\ graph_call.result.y[10] = 1

\* C14: calculate_habit_consistency of src/utils/graphs.py plots every habit
\* once with the number of its true entries, in non-increasing order of
\* total, habits with equal totals in their insertion order, and the totals
\* sum to the number of true entries of the whole habit dict.
C14_HabitConsistency ==
    (graph_call.fn = "calculate_habit_consistency"
        /\ graph_call.impl = "src/utils/graphs.py") =>
        /\ graph_call.result.raised = None
        /\ Len(graph_call.result.x) = Len(graph_call.habits_data)
        /\ Len(graph_call.result.y) = Len(graph_call.habits_data)
        /\ {graph_call.result.x[i] : i \in 1..Len(graph_call.result.x)}
              = NamesOf(graph_call.habits_data)
        /\ \A i \in 1..Len(graph_call.result.x) :
              graph_call.result.y[i] =
                 TrueCount(graph_call.habits_data[
                              PosOf(graph_call.habits_data, graph_call.result.x[i])][2])
        /\ \A i, j \in 1..Len(graph_call.result.x) :
              i < j =>
                 /\ graph_call.result.y[i] >= graph_call.result.y[j]
                 /\ graph_call.result.y[i] = graph_call.result.y[j] =>
                       PosOf(graph_call.habits_data, graph_call.result.x[i])
                          < PosOf(graph_call.habits_data, graph_call.result.x[j])
        /\ SeqSum(graph_call.result.y) =
              Cardinality({ik \in (1..Len(graph_call.habits_data)) \X {"2", "10"} :
                              /\ ik[2] \in DOMAIN graph_call.habits_data[ik[1]][2]
                              /\ graph_call.habits_data[ik[1]][2][ik[2]]})

\* C14 witness: three habits of which the last inserted has the highest
\* total and the first two tie.
C14_Witness ==
    /\ graph_call.fn = "calculate_habit_consistency"
    /\ graph_call.impl = "src/utils/graphs.py"
    /\ Len(graph_call.habits_data) = 3
    /\ graph_call.result.y = <<2, 1, 1>>
    /\ graph_call.result.x[1] = graph_call.habits_data[3][1]

\* C15: plot_individual_trends gives one trace per selected name in
\* selection order; a name that is no habit gives an empty trace and no
\* exception; a habit gives one point per day key of its map, by ascending
\* day number, 1 where the map holds true and 0 where it holds false.
C15_IndividualTrend ==
    graph_call.fn = "plot_individual_trends" =>
        /\ graph_call.result.raised = None
        /\ Len(graph_call.result.traces) = Len(graph_call.selected_habits)
        /\ \A idx \in 1..Len(graph_call.selected_habits) :
              LET trace == graph_call.result.traces[idx]
                  name == graph_call.selected_habits[idx]
              IN  /\ trace.name = name
                  /\ Len(trace.x) = Len(trace.y)
                  /\ name \notin NamesOf(graph_call.habits_data) =>
                        trace.x = << >> /\ trace.y = << >>
                  /\ name \in NamesOf(graph_call.habits_data) =>
                        LET days_dict ==
                               graph_call.habits_data[PosOf(graph_call.habits_data, name)][2]
                        IN  /\ Len(trace.x) = Cardinality(DOMAIN days_dict)
                            /\ \A j, k \in 1..Len(trace.x) : j < k => trace.x[j] < trace.x[k]
                            /\ \A j \in 1..Len(trace.x) :
                                  /\ str(trace.x[j]) \in DOMAIN days_dict
                                  /\ trace.y[j] = IF days_dict[str(trace.x[j])] THEN 1 ELSE 0

\* C15 witness: "Gym" with the days 2 and 10, "Swim" that is no habit, and
\* "Read" with day 2 alone.
C15_Witness ==
    /\ graph_call.fn = "plot_individual_trends"
    /\ graph_call.selected_habits = <<"Gym", "Swim", "Read">>
    /\ graph_call.result.raised = None
    /\ graph_call.result.traces[1].x = <<2, 10>>
    /\ graph_call.result.traces[1].y = <<0, 1>>
    /\ graph_call.result.traces[2].x = << >>
    /\ graph_call.result.traces[3].x = <<2>>

\* C16: calculate_habit_consistency of the empty habit dict plots no habit
\* and raises nothing, in src/utils/graphs.py and in src/graphs.py.
C16_EmptyConsistency ==
    (graph_call.fn = "calculate_habit_consistency" /\ graph_call.habits_data = << >>) =>
        graph_call.result = [raised |-> None, x |-> << >>, y |-> << >>]

\* The Add Habit and Add Task clicks of the last interaction.
AddHabitCalls == {i \in 1..Len(log) : log[i].op = "call" /\ log[i].by = "Add Habit"}

AddTaskCalls == {i \in 1..Len(log) : log[i].op = "call" /\ log[i].by = "Add Task"}

\* C17: after an Add Habit click with a non-empty name N in a loaded month
\* of D days (the rerun and its grid sync included), habits[N] has exactly
\* the keys "1" .. str(D), all false, and journal and tasks are what they
\* were when the button was clicked.
C17_AddHabit ==
    \A i \in AddHabitCalls :
        log[i].key /= "" =>
            /\ log[i].key \in DOMAIN data.habits
            /\ DOMAIN data.habits[log[i].key]
                  = {str(d) : d \in 1..days_in_month(log[i].mem.month_key)}
            /\ \A k \in DOMAIN data.habits[log[i].key] : ~data.habits[log[i].key][k]
            /\ data.journal = log[i].mem.journal
            /\ data.tasks = log[i].mem.tasks

\* C17 witness: Add Habit "Read" in the 30-day month 2025-11 with a journal
\* entry in the bucket.
C17_Witness ==
    \E i \in AddHabitCalls :
        /\ log[i].key = "Read"
        /\ log[i].mem.month_key = "2025-11"
        /\ log[i].mem.journal /= EmptyDict
        /\ "30" \in DOMAIN data.habits["Read"]

\* C18: an Add Habit or Add Task click with an empty name shows the error
\* message of the button and leaves habits, journal and tasks as they were
\* when the button was clicked.
C18_EmptyNameRejected ==
    \A i \in AddHabitCalls \cup AddTaskCalls :
        log[i].key = "" =>
            /\ message = IF log[i].by = "Add Habit" THEN "Please enter a habit name."
                         ELSE "Please enter a task name."
            /\ Bucket(data) = Bucket(log[i].mem)

\* C18 witness: an Add Task click with an empty name in a bucket that has
\* a habit and a journal entry.
C18_Witness ==
    \E i \in AddTaskCalls :
        /\ log[i].key = ""
        /\ log[i].mem.habits /= EmptyDict
        /\ log[i].mem.journal /= EmptyDict

AuthAnswers == {i \in 1..Len(log) : log[i].op = "auth"}

SettingsCalls == {i \in 1..Len(log) : log[i].op \in {"settings_read", "settings_write"}}

SaveWrites ==
    {i \in 1..Len(log) : log[i].op = "write" /\ log[i].by \in {"save", "autosave", "logout"}}

\* C21: every store write issued by save(), from Save Changes, autosave or
\* logout, is addressed to the month key the in-memory bucket was loaded
\* for.
C21_SaveAddressesLoadedMonth ==
    \A i \in SaveWrites : log[i].key = log[i].mem.month_key

\* The first month load of an interaction that began with an accepted
\* authentication.
FirstLoadsAfterAuth ==
    {j \in 1..Len(log) :
        /\ log[j].op = "read"
        /\ \E i \in 1..(j - 1) : log[i].op = "auth" /\ log[i].ok
        /\ \A k \in 1..(j - 1) : log[k].op /= "read"}

\* C22: on the first entry into the main app after an authentication, a
\* login that follows a logout included, the bucket is the empty one and
\* the snapshot equals it when the first month load is issued.
C22_FreshEntryIsEmpty ==
    \A j \in FirstLoadsAfterAuth :
        /\ log[j].mem = EmptyData
        /\ log[j].snap = EmptyData

JournalShown == {i \in 1..Len(log) : log[i].op = "shown" /\ log[i].by = "journal"}

\* The habits of a bucket whose completion map holds true for a day of the
\* month.
HabitsDoneOn(habits, day) ==
    {h \in DOMAIN habits : str(day) \in DOMAIN habits[h] /\ habits[h][str(day)]}

\* C23: whenever the Journal tab is rendered, the 'Habits completed' count
\* it shows equals the number of habits whose completion map holds true for
\* the day of the selected date.
C23_HabitsCompletedCount ==
    \A i \in JournalShown :
        log[i].done = Cardinality(HabitsDoneOn(log[i].mem.habits, log[i].day))

\* C24: after an Add Habit click with a non-empty name, every habit that
\* was in the bucket when the button was clicked has the completion map it
\* had then, the submitted name being the name of one of them included.
C24_AddHabitKeepsCompletions ==
    \A i \in AddHabitCalls :
        log[i].key /= "" =>
            \A h \in DOMAIN log[i].mem.habits :
                /\ h \in DOMAIN data.habits
                /\ data.habits[h] = log[i].mem.habits[h]

\* C25: an Add Task click with a non-empty name N on the selected day d
\* ends without an error, with tasks[d][N] false, the other tasks of d and
\* every other day as they were when the button was clicked.
C25_AddTask ==
    \A i \in AddTaskCalls :
        log[i].key /= "" =>
            LET d == strftime_d(selected_date[2])
                before == log[i].mem.tasks
            IN  /\ error = None
                /\ d \in DOMAIN data.tasks
                /\ log[i].key \in DOMAIN data.tasks[d]
                /\ ~data.tasks[d][log[i].key]
                /\ DOMAIN data.tasks = DOMAIN before \cup {d}
                /\ \A e \in DOMAIN before \ {d} : data.tasks[e] = before[e]
                /\ DOMAIN data.tasks[d] = DOMAIN DictGet(before, d, EmptyDict) \cup {log[i].key}
                /\ \A n \in DOMAIN DictGet(before, d, EmptyDict) \ {log[i].key} :
                      data.tasks[d][n] = before[d][n]

JournalTexts == {i \in 1..Len(log) : log[i].op = "text" /\ log[i].by = "journal"}

\* C26: a run in which the journal text area returns the text it displayed
\* (the stored entry, or the default prompt when the day's entry is absent
\* or empty) leaves the journal map as it was; a run in which the text
\* differs leaves the journal map with the selected day's entry replaced by
\* the new text and every other entry as it was.
C26_JournalFrame ==
    \A i \in JournalTexts :
        /\ log[i].existing_text =
              (IF log[i].key \in DOMAIN log[i].mem.journal /\ log[i].mem.journal[log[i].key] /= ""
               THEN log[i].mem.journal[log[i].key]
               ELSE settings["reflection_questions"])
        /\ log[i].new_text = log[i].existing_text => data.journal = log[i].mem.journal
        /\ log[i].new_text /= log[i].existing_text =>
              /\ DOMAIN data.journal = DOMAIN log[i].mem.journal \cup {log[i].key}
              /\ data.journal[log[i].key] = log[i].new_text
              /\ \A d \in DOMAIN log[i].mem.journal \ {log[i].key} :
                    data.journal[d] = log[i].mem.journal[d]

\* C26 witness: the user replaces the entry of day 05 while the bucket
\* holds the entry of another day.
C26_Witness ==
    \E i \in JournalTexts :
        /\ log[i].new_text /= log[i].existing_text
        /\ log[i].key = "05"
        /\ DOMAIN log[i].mem.journal \ {"05"} /= {}
        /\ data.journal["05"] = log[i].new_text

\* C27: whenever the session user is set, the session holds settings with
\* the key date_of_account_creation.
C27_UserHasSettings ==
    user /= None =>
        /\ "settings" \in keys
        /\ "date_of_account_creation" \in DOMAIN settings

\* C28: when a Logout click has ended on the login screen, no entry of the
\* session holds habits, a journal or tasks of the user who logged out:
\* data and the cached habit grid are gone, and the snapshot is gone or
\* holds nothing.
C28_LogoutLeavesNoBucket ==
    (LogoutCalls /= {} /\ user = None) =>
        /\ "data" \notin keys
        /\ "habit_grid_df" \notin keys
        /\ \/ "savedchanges" \notin keys
           \/ Bucket(savedchanges) = Bucket(EmptyData)

\* C29: the settings record written to the store at signup holds the
\* fields email, name, date_of_account_creation and reflection_questions
\* and no other; it does not hold the password.
C29_SignupSettingsFields ==
    db_call.op = "update_user_settings" =>
        /\ DOMAIN db_call.given = {"email", "name", "date_of_account_creation",
                                   "reflection_questions"}
        /\ "password" \notin DOMAIN profile[db_call.uid].fields

====
